---- MODULE Spec2Model ----
(***************************************************************************)
(* Model of moments/services/azure_vision.py: a client of the Azure        *)
(* Computer Vision "analyze" endpoint.  The module reads two configuration *)
(* values from the process environment when it is imported and offers two  *)
(* operations, generate_alt_text and generate_image_tags.                  *)
(*                                                                         *)
(* Python values: None is the string None below; a str is a TLA+ string;   *)
(* a dict is a function from its keys; a list is a sequence.  A            *)
(* confidence c of the service is modelled as the integer 100 * c.         *)
(***************************************************************************)
EXTENDS Integers, Sequences, FiniteSets, TLC

VARIABLES
    environ,                \* os.environ: a function from the names that are set
    imported,               \* the module azure_vision has been imported
    AZURE_VISION_ENDPOINT,  \* module global (line 11)
    AZURE_VISION_KEY,       \* module global (line 12)
    call                    \* record of the last call of an operation

vars == <<environ, imported, AZURE_VISION_ENDPOINT, AZURE_VISION_KEY, call>>

----------------------------------------------------------------------------
(* Bounds of the model *)

MaxCaptions == 2    \* longest description.captions list the service returns
MaxTags == 2        \* longest tags list the service returns

----------------------------------------------------------------------------
(* Python values *)

None == "<None>"

EmptyDict == [k \in {} |-> None]

\* dict.get(key, default)
Get(d, key, default) == IF key \in DOMAIN d THEN d[key] ELSE default

\* truth value of an Optional[str]: None and "" are falsy
Truthy(v) == v # None /\ v # ""

\* a dict with one optional entry; opt is <<>> (key absent) or <<value>>
Field(key, opt) == IF opt = <<>> THEN EmptyDict ELSE key :> opt[1]

SeqsUpTo(S, n) == UNION {[1..m -> S] : m \in 0..n}

----------------------------------------------------------------------------
(* The process environment and the .env file *)

EnvNames == {"AZURE_VISION_ENDPOINT", "AZURE_VISION_KEY"}

EnvValues == {"", "configured"}

Environments == UNION {[S -> EnvValues] : S \in SUBSET EnvNames}

\* what a .env file in the working directory may define (none: no file)
DotenvFiles == {EmptyDict,
                [n \in EnvNames |-> "configured"],
                [n \in {"AZURE_VISION_KEY"} |-> "configured"]}

\* os.getenv(name): None when the variable is not set
getenv(env, name) == Get(env, name, None)

\* load_dotenv(): the file's variables are added to os.environ; a variable
\* that is already set keeps its value (override is False by default)
load_dotenv(env, file) ==
    [n \in DOMAIN env \cup DOMAIN file |->
        IF n \in DOMAIN env THEN env[n] ELSE file[n]]

----------------------------------------------------------------------------
(* The local filesystem *)

Paths == {"photo.jpg", "missing.jpg"}

ReadablePaths == {"photo.jpg"}

\* open(image_path, 'rb') succeeds
Readable_any(image_path) == TRUE

Readable(image_path) == image_path \in ReadablePaths

----------------------------------------------------------------------------
(* The remote service *)

Statuses == {101, 200, 304, 404, 500}

CaptionObjects == {Field("text", opt) :
                     opt \in {<<>>, <<"a cat sitting on a chair">>, <<"a dog">>}}

DescriptionBodies ==
    {EmptyDict, "description" :> EmptyDict}
    \cup {"description" :> ("captions" :> caps) :
            caps \in SeqsUpTo(CaptionObjects, MaxCaptions)}

\* name and confidence of a tag object, each possibly absent
TagFields == { <<<<"cat">>, <<90>>>>, <<<<"indoor">>, <<40>>>>,
               <<<<"indoor">>, <<50>>>>, <<<<>>, <<90>>>>,
               <<<<"cat">>, <<>>>>, <<<<>>, <<>>>> }

TagObjects == {Field("name", f[1]) @@ Field("confidence", f[2]) : f \in TagFields}

TagsBodies ==
    {EmptyDict} \cup {"tags" :> ts : ts \in SeqsUpTo(TagObjects, MaxTags)}

Bodies(feature) ==
    IF feature = "Description" THEN DescriptionBodies ELSE TagsBodies

\* the bodies the service sends with a status outside 2xx
OtherBodies(feature) ==
    IF feature = "Description"
    THEN {EmptyDict,
          "description" :> ("captions" :> <<Field("text", <<"a dog">>)>>)}
    ELSE {EmptyDict,
          "tags" :> <<Field("name", <<"cat">>) @@ Field("confidence", <<90>>)>>}

\* no response was received (and the value of call.response before any request)
NoResponse == [status |-> 0, is_json |-> FALSE, body |-> EmptyDict]

\* what requests.post may come back with for a request for `feature`
Responses(feature) ==
    {NoResponse}
    \cup {[status |-> s, is_json |-> FALSE, body |-> EmptyDict] : s \in Statuses}
    \cup {[status |-> 200, is_json |-> TRUE, body |-> b] : b \in Bodies(feature)}
    \cup {[status |-> s, is_json |-> TRUE, body |-> b] :
            s \in Statuses \ {200}, b \in OtherBodies(feature)}

\* response.raise_for_status() raises HTTPError: requests does so for the
\* client errors 400..499 and the server errors 500..599
raise_for_status_5xx(status) == 500 <= status /\ status < 600

raise_for_status(status) == 400 <= status /\ status < 600

----------------------------------------------------------------------------
(* The operations *)

AltTextNoCredentials == "No alt text (Azure credentials not set)."

AltTextNoCaption == "No alt text (no caption returned)."

\* 0.5, the lowest confidence of a tag that is kept, times 100
ConfidenceThreshold == 50

\* `not AZURE_VISION_ENDPOINT or not AZURE_VISION_KEY`
CredentialsMissing_and ==
    ~Truthy(AZURE_VISION_ENDPOINT) /\ ~Truthy(AZURE_VISION_KEY)

CredentialsMissing_environ ==
    \/ ~Truthy(getenv(environ, "AZURE_VISION_ENDPOINT"))
    \/ ~Truthy(getenv(environ, "AZURE_VISION_KEY"))

CredentialsMissing ==
    ~Truthy(AZURE_VISION_ENDPOINT) \/ ~Truthy(AZURE_VISION_KEY)

\* the same test on the environment as it is now (recorded with each call)
EnvironMissing ==
    \/ ~Truthy(getenv(environ, "AZURE_VISION_ENDPOINT"))
    \/ ~Truthy(getenv(environ, "AZURE_VISION_KEY"))

\* the side effects of a call, in order
OpenImage(effects) == Append(effects, "open")

SendRequest_retry(effects) == effects \o <<"post", "post">>

SendRequest(effects) == Append(effects, "post")

Return(effects, response, value) ==
    [effects |-> effects, response |-> response, kind |-> "return",
     exc |-> None, status |-> 0, value |-> value]

Raise(effects, response, exc, status) ==
    [effects |-> effects, response |-> response, kind |-> "raise",
     exc |-> exc, status |-> status, value |-> None]

\* captions[0]
TopCaption_last(captions) == captions[Len(captions)]

TopCaption(captions) == captions[1]

\* lines 44-50
ParseCaption(effects, response) ==
    LET result == response.body
        captions == Get(Get(result, "description", EmptyDict), "captions", <<>>)
    IN  IF captions # <<>>
        THEN IF "text" \in DOMAIN TopCaption(captions)
             THEN Return(effects, response, TopCaption(captions)["text"])
             ELSE Raise(effects, response, "KeyError", 0)
        ELSE Return(effects, response, AltTextNoCaption)

\* `confidence >= 0.5`
KeepTag_strict(confidence) == confidence > ConfidenceThreshold

KeepTag(confidence) == confidence >= ConfidenceThreshold

\* the loop of lines 81-86
RECURSIVE TagLoop(_, _)
TagLoop(infos, tags) ==
    IF infos = <<>> THEN tags
    ELSE LET tag_info == Head(infos)
             tag_name == Get(tag_info, "name", None)
             confidence == Get(tag_info, "confidence", 0)
         IN  TagLoop(Tail(infos),
                     IF KeepTag(confidence) THEN Append(tags, tag_name) ELSE tags)

\* lines 77-87
ParseTags(effects, response) ==
    Return(effects, response, TagLoop(Get(response.body, "tags", <<>>), <<>>))

\* lines 36-44 and 72-77, the part the two operations share; feature is the
\* visualFeatures value of the request
Request(image_path, response, feature) ==
    IF ~Readable(image_path)
    THEN Raise(OpenImage(<<>>), NoResponse, "FileNotFoundError", 0)
    ELSE LET effects == SendRequest(OpenImage(<<>>))
         IN  IF response = NoResponse
             THEN Raise(effects, NoResponse, "ConnectionError", 0)
             ELSE IF raise_for_status(response.status)
             THEN Raise(effects, response, "HTTPError", response.status)
             ELSE IF ~response.is_json
             THEN Raise(effects, response, "JSONDecodeError", 0)
             ELSE IF feature = "Description"
             THEN ParseCaption(effects, response)
             ELSE ParseTags(effects, response)

generate_alt_text_openFirst(image_path, response) ==
    IF ~Readable(image_path)
    THEN Raise(OpenImage(<<>>), NoResponse, "FileNotFoundError", 0)
    ELSE IF CredentialsMissing
    THEN Return(OpenImage(<<>>), NoResponse, AltTextNoCredentials)
    ELSE Request(image_path, response, "Description")

generate_alt_text(image_path, response) ==
    IF CredentialsMissing
    THEN Return(<<>>, NoResponse, AltTextNoCredentials)
    ELSE Request(image_path, response, "Description")

generate_image_tags(image_path, response) ==
    IF CredentialsMissing
    THEN Return(<<>>, NoResponse, <<>>)
    ELSE Request(image_path, response, "Tags")

----------------------------------------------------------------------------
(* The state machine *)

NoCall == [op |-> "none", image_path |-> "", environMissing |-> FALSE]
          @@ Return(<<>>, NoResponse, None)

Called(op, image_path, outcome) ==
    [op |-> op, image_path |-> image_path, environMissing |-> EnvironMissing]
    @@ outcome

Init ==
    /\ environ \in Environments
    /\ imported = FALSE
    /\ AZURE_VISION_ENDPOINT = None
    /\ AZURE_VISION_KEY = None
    /\ call = NoCall

\* `import moments.services.azure_vision`: lines 7-12
Import ==
    /\ ~imported
    /\ \E file \in DotenvFiles :
        /\ environ' = load_dotenv(environ, file)
        /\ AZURE_VISION_ENDPOINT' = getenv(environ', "AZURE_VISION_ENDPOINT")
        /\ AZURE_VISION_KEY' = getenv(environ', "AZURE_VISION_KEY")
    /\ imported' = TRUE
    /\ UNCHANGED call

\* the process sets an environment variable: os.environ[name] = value
SetEnv ==
    /\ \E name \in EnvNames, value \in EnvValues :
        environ' = [n \in DOMAIN environ \cup {name} |->
                      IF n = name THEN value ELSE environ[n]]
    /\ UNCHANGED <<imported, AZURE_VISION_ENDPOINT, AZURE_VISION_KEY, call>>

\* the process clears an environment variable: del os.environ[name]
DelEnv ==
    /\ \E name \in DOMAIN environ :
        environ' = [n \in DOMAIN environ \ {name} |-> environ[n]]
    /\ UNCHANGED <<imported, AZURE_VISION_ENDPOINT, AZURE_VISION_KEY, call>>

GenerateAltText ==
    /\ imported
    /\ \E image_path \in Paths, response \in Responses("Description") :
        call' = Called("generate_alt_text", image_path,
                       generate_alt_text(image_path, response))
    /\ UNCHANGED <<environ, imported, AZURE_VISION_ENDPOINT, AZURE_VISION_KEY>>

GenerateImageTags ==
    /\ imported
    /\ \E image_path \in Paths, response \in Responses("Tags") :
        call' = Called("generate_image_tags", image_path,
                       generate_image_tags(image_path, response))
    /\ UNCHANGED <<environ, imported, AZURE_VISION_ENDPOINT, AZURE_VISION_KEY>>

Next ==
    \/ Import
    \/ SetEnv
    \/ DelEnv
    \/ GenerateAltText
    \/ GenerateImageTags

Spec == Init /\ [][Next]_vars

----------------------------------------------------------------------------
(* Properties *)

\* the module's configuration is incomplete
ConfigMissing ==
    \/ AZURE_VISION_ENDPOINT \in {None, ""}
    \/ AZURE_VISION_KEY \in {None, ""}

Count(effects, e) == Cardinality({i \in DOMAIN effects : effects[i] = e})

\* the call returned before touching the file or the network
ShortCircuited(c) == c.kind = "return" /\ c.effects = <<>>

\* the call got a 2xx response whose body is a JSON object
GotJson2xx ==
    /\ Count(call.effects, "post") > 0
    /\ call.response.status \in 200..299
    /\ call.response.is_json

\* C1: with the endpoint or the key absent or empty, generate_alt_text
\* returns exactly "No alt text (Azure credentials not set)." for every path,
\* and issues no HTTP request.
C1_AltTextWithoutCredentials ==
    (call.op = "generate_alt_text" /\ ConfigMissing) =>
        /\ call.kind = "return"
        /\ call.value = "No alt text (Azure credentials not set)."
        /\ Count(call.effects, "post") = 0

C1_Witness ==
    /\ call.op = "generate_alt_text"
    /\ AZURE_VISION_ENDPOINT = ""
    /\ AZURE_VISION_KEY = "configured"
    /\ call.image_path = "photo.jpg"
    /\ call.value = "No alt text (Azure credentials not set)."

\* C2: with the endpoint or the key absent or empty, generate_image_tags
\* returns an empty list (no string, no error) for every path, and issues no
\* HTTP request.
C2_TagsWithoutCredentials ==
    (call.op = "generate_image_tags" /\ ConfigMissing) =>
        /\ call.kind = "return"
        /\ call.value = <<>>
        /\ Count(call.effects, "post") = 0

C2_Witness ==
    /\ call.op = "generate_image_tags"
    /\ AZURE_VISION_ENDPOINT = "configured"
    /\ AZURE_VISION_KEY = None
    /\ call.image_path = "photo.jpg"
    /\ call.kind = "return"
    /\ call.value = <<>>

\* an HTTPError that carries the status of the response, and no value
FailedWithStatus ==
    /\ call.kind = "raise"
    /\ call.exc = "HTTPError"
    /\ call.status = call.response.status
    /\ call.value = None

\* C3 (as claimed): every response with a status outside 200..299, 1xx and
\* 3xx included, makes both operations fail with an error that carries the
\* status; nothing is returned.
C3_Original ==
    (/\ call.op # "none"
     /\ call.response # NoResponse
     /\ call.response.status \notin 200..299) => FailedWithStatus

\* C3 (amended): every response with a status in 400..599 makes both
\* operations fail with an HTTPError that carries the status; nothing is
\* returned.
C3_ErrorStatusRaises ==
    (/\ call.op # "none"
     /\ call.response # NoResponse
     /\ call.response.status \in 400..599) => FailedWithStatus

C3_Witness ==
    /\ call.op = "generate_image_tags"
    /\ call.response.status = 404
    /\ call.kind = "raise"
    /\ call.exc = "HTTPError"
    /\ call.status = 404

ConfidentTag(tag_info) ==
    "confidence" \in DOMAIN tag_info /\ tag_info["confidence"] >= 50

\* the names of the tags of a body whose confidence is at least 0.5, in the
\* body's order
ConfidentNames(body) ==
    LET kept == SelectSeq(Get(body, "tags", <<>>), ConfidentTag)
    IN  [i \in 1..Len(kept) |-> Get(kept[i], "name", None)]

\* C4: on a successful response generate_image_tags returns exactly the
\* names of the tags with confidence >= 0.5 (0.5 itself kept), in the order
\* of the response, duplicates kept.
C4_TagsFiltered ==
    (call.op = "generate_image_tags" /\ GotJson2xx) =>
        /\ call.kind = "return"
        /\ call.value = ConfidentNames(call.response.body)

C4_Witness ==
    /\ call.op = "generate_image_tags"
    /\ GotJson2xx
    /\ "tags" \in DOMAIN call.response.body
    /\ call.response.body["tags"] =
         << [name |-> "cat", confidence |-> 90],
            [name |-> "indoor", confidence |-> 40] >>
    /\ call.value = <<"cat">>

CaptionsOf(body) == Get(Get(body, "description", EmptyDict), "captions", <<>>)

\* C5: on a successful response generate_alt_text returns the text of the
\* first caption when there is one (whatever follows it), and
\* "No alt text (no caption returned)." when the caption list is empty.
\* The first caption is one that has a text; one without is the case of C6.
C5_FirstCaption ==
    (call.op = "generate_alt_text" /\ GotJson2xx) =>
        LET caps == CaptionsOf(call.response.body)
        IN  /\ (Len(caps) > 0 /\ "text" \in DOMAIN caps[1]) =>
                 (call.kind = "return" /\ call.value = caps[1]["text"])
            /\ Len(caps) = 0 =>
                 /\ call.kind = "return"
                 /\ call.value = "No alt text (no caption returned)."

C5_Witness ==
    /\ call.op = "generate_alt_text"
    /\ GotJson2xx
    /\ CaptionsOf(call.response.body) =
         << [text |-> "a cat sitting on a chair"], [text |-> "a dog"] >>
    /\ call.value = "a cat sitting on a chair"

\* an expected field of the body is absent
FieldAbsent(op, body) ==
    IF op = "generate_alt_text"
    THEN \/ "description" \notin DOMAIN body
         \/ "captions" \notin DOMAIN body["description"]
         \/ \E i \in DOMAIN CaptionsOf(body) :
               "text" \notin DOMAIN CaptionsOf(body)[i]
    ELSE \/ "tags" \notin DOMAIN body
         \/ \E i \in DOMAIN body["tags"] :
               \/ "name" \notin DOMAIN body["tags"][i]
               \/ "confidence" \notin DOMAIN body["tags"][i]

\* C6: on a 2xx response with an expected JSON field absent neither
\* operation fails: generate_alt_text returns
\* "No alt text (no caption returned)." and generate_image_tags returns a
\* list of strings only.
C6_MissingFieldsTolerated ==
    (call.op # "none" /\ GotJson2xx /\ FieldAbsent(call.op, call.response.body)) =>
        /\ call.kind = "return"
        /\ call.op = "generate_alt_text" =>
             call.value = "No alt text (no caption returned)."
        /\ call.op = "generate_image_tags" =>
             \A i \in DOMAIN call.value : call.value[i] # None

\* C7: with both configuration values non-empty and an image path that
\* cannot be read, both operations fail with a filesystem error and no HTTP
\* request is issued.
C7_UnreadableFileFailsBeforeRequest ==
    (call.op # "none" /\ ~ConfigMissing /\ call.image_path \notin ReadablePaths) =>
        /\ call.kind = "raise"
        /\ call.exc = "FileNotFoundError"
        /\ Count(call.effects, "post") = 0

C7_Witness ==
    /\ call.op = "generate_alt_text"
    /\ ~ConfigMissing
    /\ call.image_path = "missing.jpg"
    /\ call.exc = "FileNotFoundError"
    /\ call.effects = <<"open">>

\* C8 (as claimed): each call uses the values the environment variables hold
\* at the time of the call: it short-circuits exactly when one of them is
\* then unset or empty.
C8_Original ==
    call.op # "none" => (ShortCircuited(call) <=> call.environMissing)

\* C8 (amended): the two values are read from the environment once, when
\* the module is imported (after load_dotenv), and kept in module globals;
\* no later step changes them, and each call short-circuits exactly when one
\* of the globals is None or empty, whatever the environment holds then.
C8_ReadAtImport ==
    [][ /\ (~imported /\ imported') =>
            /\ AZURE_VISION_ENDPOINT' = getenv(environ', "AZURE_VISION_ENDPOINT")
            /\ AZURE_VISION_KEY' = getenv(environ', "AZURE_VISION_KEY")
        /\ imported =>
            /\ AZURE_VISION_ENDPOINT' = AZURE_VISION_ENDPOINT
            /\ AZURE_VISION_KEY' = AZURE_VISION_KEY
        /\ call'.op # "none" => (ShortCircuited(call') <=> ConfigMissing') ]_vars

\* a call that did not short-circuit although a variable was unset or empty
\* in the environment when it was made
C8_Witness ==
    /\ call.op # "none"
    /\ call.environMissing
    /\ ~ConfigMissing
    /\ ~ShortCircuited(call)

\* C9: a call with both configuration values non-empty and a readable path
\* reads the file once and then posts once; on every path, an HTTP error
\* response included, a call reads the file at most once and posts at most
\* once.
C9_SingleShot ==
    call.op # "none" =>
        /\ (~ConfigMissing /\ call.image_path \in ReadablePaths) =>
              call.effects = <<"open", "post">>
        /\ Count(call.effects, "open") <= 1
        /\ Count(call.effects, "post") <= 1

C9_Witness ==
    /\ call.op # "none"
    /\ call.exc = "HTTPError"
    /\ call.response.status = 500
    /\ call.effects = <<"open", "post">>

\* C10: with the endpoint or the key absent or empty the image path is never
\* opened: a call with an unreadable path returns the fallback value (the
\* fallback string, the empty list) instead of failing.
C10_CredentialsCheckedBeforeOpen ==
    (call.op # "none" /\ ConfigMissing) =>
        /\ Count(call.effects, "open") = 0
        /\ call.kind = "return"
        /\ call.op = "generate_alt_text" =>
             call.value = "No alt text (Azure credentials not set)."
        /\ call.op = "generate_image_tags" => call.value = <<>>

C10_Witness ==
    /\ call.op = "generate_image_tags"
    /\ ConfigMissing
    /\ call.image_path = "missing.jpg"
    /\ call.kind = "return"
    /\ call.effects = <<>>

====
